---- MODULE Spec2Model ----
(***************************************************************************)
(* A model of kedro_datasets.svmlight.SVMLightDataset: the adapter that    *)
(* loads and saves a (feature matrix, label vector) pair in the svmlight   *)
(* text format through an fsspec filesystem and kedro's versioned-path     *)
(* resolver.                                                               *)
(*                                                                         *)
(* The adapter's own methods (__init__, _describe, load, save, _exists,    *)
(* _release, _invalidate_cache) are translated statement by statement.     *)
(* The collaborators they call (kedro.io.core, fsspec, sklearn) are        *)
(* modelled by what the called function does at the call site:            *)
(*   - a Python dict is a function whose domain is its set of keys;        *)
(*   - an optional argument is [some |-> FALSE] or [some |-> TRUE, val];   *)
(*   - a version token is a positive integer, ordered as the strings are   *)
(*     ordered; 0 is an unset slot of Version(load, save);                 *)
(*   - a float is [sig, tail]: its first 16 significant digits and what    *)
(*     lies beyond them, because the codec prints floats with "%.16g";     *)
(*   - a file is a sequence of lines [label, feats], feats a sequence of   *)
(*     <<index, value>> as the text holds them.                            *)
(* load and save advance one statement at a time (pc), so that the         *)
(* stream scope of the with-statement is visible in the states.            *)
(***************************************************************************)
EXTENDS Integers, Sequences, FiniteSets, TLC

VARIABLES
    args,          \* the arguments the constructor was called with
    batch,         \* the sample batch the caller has computed
    self,          \* the adapter's attributes, set by __init__
    files,         \* the storage behind self.fs: path -> file content
    fsCache,       \* paths whose metadata self.fs holds in its cache
    versionCache,  \* the resolver's _version_cache: [load, save]
    clock,         \* the next value of generate_timestamp()
    streams,       \* the byte streams that are open
    pc,            \* position of the running call ("new", "idle", ...)
    frame,         \* locals of the running call
    log,           \* collaborator calls made by the current/last call
    outcome,       \* how the last call ended
    saved          \* the last save that returned: its data and path

vars == <<args, batch, self, files, fsCache, versionCache, clock, streams, pc,
          frame, log, outcome, saved>>

-----------------------------------------------------------------------------
(* Bounds *)

\* timestamps generate_timestamp() can hand out: 1..MaxClock
MaxClock == 2

\* columns of a generated feature matrix
NCols == 2

-----------------------------------------------------------------------------
(* Python values *)

EmptyDict == <<>>

None == [some |-> FALSE]

Some(v) == [some |-> TRUE, val |-> v]

\* d[k] = v
With(d, k, v) == [y \in DOMAIN d \cup {k} |-> IF y = k THEN v ELSE d[y]]

\* {**a, **b}
Merge(a, b) == [k \in DOMAIN a \cup DOMAIN b |-> IF k \in DOMAIN b THEN b[k] ELSE a[k]]

\* d after d.pop(k, default)
Without(d, k) == [y \in DOMAIN d \ {k} |-> d[y]]

\* the value of d.pop(k, default) / d.get(k, default)
GetOr(d, k, default) == IF k \in DOMAIN d THEN d[k] ELSE default

\* (x or {}) for an optional dict
OrEmpty(o) == IF o.some THEN o.val ELSE EmptyDict

\* d.setdefault(k, v)
SetDefault(d, k, v) == IF k \in DOMAIN d THEN d ELSE With(d, k, v)

Put(d, c) == IF c.has THEN With(d, c.key, c.val) ELSE d

Absent == [has |-> FALSE]

Entry(k, v) == [has |-> TRUE, key |-> k, val |-> v]

-----------------------------------------------------------------------------
(* Class attributes *)

DEFAULT_LOAD_ARGS == EmptyDict

DEFAULT_SAVE_ARGS == EmptyDict

DEFAULT_FS_ARGS ==
    [open_args_save |-> [mode |-> "wb"], open_args_load |-> [mode |-> "rb"]]

-----------------------------------------------------------------------------
(* kedro.io.core *)

NoVersion == [set |-> FALSE, load |-> 0, save |-> 0]

Version(l, s) == [set |-> TRUE, load |-> l, save |-> s]

HTTP_PROTOCOLS == {"http", "https"}

\* get_protocol_and_path(filepath, version): the protocol is the filepath's
\* scheme, "file" when there is none; HTTP(S) paths cannot be versioned.
get_protocol_and_path(filepath, version) ==
    LET protocol == IF filepath.scheme \in {"", "file"} THEN "file" ELSE filepath.scheme
    IN  IF protocol \in HTTP_PROTOCOLS /\ version.set
        THEN [ok |-> FALSE, error |-> "DatasetError"]
        ELSE [ok |-> TRUE, protocol |-> protocol, path |-> filepath.path]

\* get_filepath_str(path, protocol): the path as the filesystem takes it; an
\* HTTP(S) path gets its protocol back.  A path is [base, ver]: ver = 0 is
\* the logical path, ver > 0 is base/<ver>/<name>.
get_filepath_str(path, protocol) ==
    [prefix |-> IF protocol \in HTTP_PROTOCOLS THEN protocol ELSE "",
     base |-> path.base, ver |-> path.ver]

-----------------------------------------------------------------------------
(* __init__ *)

\* fsspec.filesystem(protocol, **credentials, **fs_args): a keyword given
\* twice is a TypeError.
fsspec_filesystem(protocol, credentials, fs_args) ==
    IF DOMAIN credentials \cap DOMAIN fs_args # {}
    THEN [ok |-> FALSE, error |-> "TypeError"]
    ELSE [ok |-> TRUE, protocol |-> protocol, kwargs |-> Merge(credentials, fs_args)]

\* a bug: auto_mkdir forced to True, whatever the caller gave
fs_constructor_args_forced(protocol, fs_args) ==
    IF protocol = "file" THEN With(fs_args, "auto_mkdir", TRUE) ELSE fs_args

\* lines 143-144: a local filesystem creates parent directories unless the
\* caller said otherwise.
fs_constructor_args(protocol, fs_args) ==
    IF protocol = "file" THEN SetDefault(fs_args, "auto_mkdir", TRUE) ELSE fs_args

\* a bug: the merge the other way round, the defaults winning
open_args_defaults_last(key, caller) ==
    Merge(caller, GetOr(DEFAULT_FS_ARGS, key, EmptyDict))

\* lines 159-166: {**DEFAULT_FS_ARGS.get(key, {}), **(caller or {})}
open_args(key, caller) == Merge(GetOr(DEFAULT_FS_ARGS, key, EmptyDict), caller)

NotConstructed == [constructed |-> FALSE]

\* The attributes __init__ leaves on the instance, or the error it raises.
New(a) ==
    LET fs_args0 == OrEmpty(a.fs_args)
        fs_open_args_load == GetOr(fs_args0, "open_args_load", EmptyDict)
        fs_args1 == Without(fs_args0, "open_args_load")
        fs_open_args_save == GetOr(fs_args1, "open_args_save", EmptyDict)
        fs_args2 == Without(fs_args1, "open_args_save")
        credentials == OrEmpty(a.credentials)
        pp == get_protocol_and_path(a.filepath, a.version)
        fs_args3 == fs_constructor_args(pp.protocol, fs_args2)
        fs == fsspec_filesystem(pp.protocol, credentials, fs_args3)
    IN  IF ~pp.ok THEN [ok |-> FALSE, error |-> pp.error]
        ELSE IF ~fs.ok THEN [ok |-> FALSE, error |-> fs.error]
        ELSE [ok |-> TRUE,
              obj |-> [constructed |-> TRUE,
                       protocol |-> pp.protocol,
                       fs |-> [protocol |-> fs.protocol, kwargs |-> fs.kwargs],
                       metadata |-> a.metadata,
                       filepath |-> [base |-> pp.path, ver |-> 0],
                       version |-> a.version,
                       load_args |-> Merge(DEFAULT_LOAD_ARGS, OrEmpty(a.load_args)),
                       save_args |-> Merge(DEFAULT_SAVE_ARGS, OrEmpty(a.save_args)),
                       fs_open_args_load |-> open_args("open_args_load", fs_open_args_load),
                       fs_open_args_save |-> open_args("open_args_save", fs_open_args_save)]]

NoOutcome ==
    [op |-> "none", kind |-> "none", error |-> "none", data |-> None,
     flag |-> FALSE, described |-> None]

Returned(op) == [NoOutcome EXCEPT !.op = op, !.kind = "return"]

Raised(op, e) == [NoOutcome EXCEPT !.op = op, !.kind = "raise", !.error = e]

NoPathStr == [prefix |-> "", base |-> "", ver |-> -1]

NoFrame == [path |-> NoPathStr, data |-> None, exc |-> "none", ret |-> None]

__init__ ==
    /\ pc = "new"
    /\ LET r == New(args)
       IN  IF r.ok
           THEN /\ self' = r.obj
                /\ outcome' = Returned("__init__")
                /\ pc' = "idle"
           ELSE /\ self' = self
                /\ outcome' = Raised("__init__", r.error)
                /\ pc' = "failed"
    /\ UNCHANGED <<args, batch, files, fsCache, versionCache, clock, streams, frame, log, saved>>

-----------------------------------------------------------------------------
(* Sample batches and the codec (sklearn.datasets) *)

Zero == [sig |-> 0, tail |-> 0]

\* 0, floats of at most 16 significant digits, and one of 17
Exact(n) == [sig |-> n, tail |-> 0]

Values == {Zero, Exact(1), [sig |-> 1, tail |-> 1]}

\* the batch of the class docstring (line 82):
\* (np.array([[0, 1], [2, 3.14159]]), np.array([7, 3]))
DocExample == [X |-> <<<<Zero, Exact(1)>>, <<Exact(2), Exact(3)>>>>, y |-> <<7, 3>>]

\* one sample with two labels: shapes the format cannot take
Mismatched == [X |-> <<[j \in 1..NCols |-> Exact(1)]>>, y |-> <<7, 3>>]

\* the batches a caller may have computed: every one-sample matrix over
\* Values with its label
Batches == {[X |-> <<r>>, y |-> <<7>>] : r \in [1..NCols -> Values]}

\* what save is called with: the caller's batch, the docstring's batch, or a
\* batch of mismatched shapes
Data == {batch, DocExample, Mismatched}

Min(S) == CHOOSE x \in S : \A z \in S : x <= z

Max(S) == CHOOSE x \in S : \A z \in S : x >= z

\* "%.16g" % v
Format16g(v) == [sig |-> v.sig, tail |-> 0]

\* dump_svmlight_file(X, y, f, **save_args): one line per sample, the label
\* and then index:value for the non-zero features; zero_based defaults to
\* True.  Shapes that disagree are a ValueError before anything is written.
dump_svmlight_file(X, y, save_args) ==
    LET off == IF GetOr(save_args, "zero_based", "True") = "True" THEN 0 ELSE 1
        NonZero(p) == p[2] # Zero
        row(i) == SelectSeq([j \in 1..Len(X[i]) |-> <<j - 1 + off, X[i][j]>>], NonZero)
        text(i) == [k \in 1..Len(row(i)) |-> <<row(i)[k][1], Format16g(row(i)[k][2])>>]
    IN  IF Len(X) # Len(y)
        THEN [ok |-> FALSE, error |-> "ValueError"]
        ELSE [ok |-> TRUE,
              lines |-> [i \in 1..Len(X) |-> [label |-> y[i], feats |-> text(i)]]]

\* load_svmlight_file(f, **load_args): zero_based defaults to "auto" (indices
\* are taken as one-based when the file has indices and none is 0); the
\* number of features is the largest index found plus one.
load_svmlight_file(lines, load_args) ==
    LET zb == GetOr(load_args, "zero_based", "auto")
        indices == UNION {{lines[i].feats[k][1] : k \in 1..Len(lines[i].feats)} :
                          i \in 1..Len(lines)}
        shift == IF zb = "False" \/ (zb = "auto" /\ indices # {} /\ Min(indices) > 0)
                 THEN 1 ELSE 0
        n_features == IF indices = {} THEN 1 ELSE Max(indices) - shift + 1
        cell(i, j) ==
            LET hits == {k \in 1..Len(lines[i].feats) : lines[i].feats[k][1] - shift = j - 1}
            IN  IF hits = {} THEN Zero ELSE lines[i].feats[Max(hits)][2]
    IN  IF \E c \in indices : c - shift < 0
        THEN [ok |-> FALSE, error |-> "ValueError"]
        ELSE [ok |-> TRUE,
              data |-> [X |-> [i \in 1..Len(lines) |-> [j \in 1..n_features |-> cell(i, j)]],
                        y |-> [i \in 1..Len(lines) |-> lines[i].label]]]

-----------------------------------------------------------------------------
(* The filesystem (fsspec) *)

Ev(call, path, mode, result) ==
    [call |-> call, path |-> path, mode |-> mode, result |-> result]

IsWriteMode(mode) == mode \in {"wb", "w", "ab", "a"}

\* fs.open(path, mode): reading needs the file; writing creates it, and
\* truncates it unless appending.  healthy = FALSE is the filesystem
\* refusing (permission, network).
fs_open(path, mode, healthy) ==
    IF ~healthy THEN [ok |-> FALSE, error |-> "OSError", files |-> files]
    ELSE IF IsWriteMode(mode)
    THEN [ok |-> TRUE,
          files |-> IF mode \in {"ab", "a"} /\ path \in DOMAIN files
                    THEN files ELSE With(files, path, <<>>)]
    ELSE IF path \in DOMAIN files
    THEN [ok |-> TRUE, files |-> files]
    ELSE [ok |-> FALSE, error |-> "FileNotFoundError", files |-> files]

\* fs.exists(path)
fs_exists(path, healthy) ==
    IF healthy THEN [ok |-> TRUE, value |-> path \in DOMAIN files]
    ELSE [ok |-> FALSE, error |-> "OSError"]

\* fs.invalidate_cache(path) drops the entries of path and of its parents.
fs_invalidate_cache(cache, path) ==
    cache \ ({path} \cup (IF path.ver > 0 THEN {[path EXCEPT !.ver = 0]} ELSE {}))

-----------------------------------------------------------------------------
(* The versioned-path resolver (kedro.io.core.AbstractVersionedDataset) *)

DatasetErrors == {"DatasetError", "VersionNotFoundError"}

\* self._filepath / version / self._filepath.name
_get_versioned_path(version) == [base |-> self.filepath.base, ver |-> version]

\* what self._exists_function / self._glob_function see: str(path)
PlainStr(path) == [prefix |-> "", base |-> path.base, ver |-> path.ver]

ExistingVersions ==
    {p.ver : p \in {q \in DOMAIN files : q.base = self.filepath.base /\ q.ver > 0}}

\* _get_load_path(): the logical path when unversioned; else the pinned load
\* version, else the cached or the most recent existing version, else
\* VersionNotFoundError (a DatasetError).
_get_load_path ==
    IF ~self.version.set
    THEN [ok |-> TRUE, path |-> self.filepath, vc |-> versionCache, cache |-> fsCache]
    ELSE IF self.version.load # 0
    THEN [ok |-> TRUE, path |-> _get_versioned_path(self.version.load),
          vc |-> versionCache, cache |-> fsCache]
    ELSE IF versionCache.load # 0
    THEN [ok |-> TRUE, path |-> _get_versioned_path(versionCache.load),
          vc |-> versionCache, cache |-> fsCache]
    ELSE IF ExistingVersions = {}
    THEN [ok |-> FALSE, error |-> "VersionNotFoundError", vc |-> versionCache,
          cache |-> fsCache \cup {PlainStr(self.filepath)}]
    ELSE [ok |-> TRUE, path |-> _get_versioned_path(Max(ExistingVersions)),
          vc |-> [versionCache EXCEPT !.load = Max(ExistingVersions)],
          cache |-> fsCache \cup {PlainStr(self.filepath)}]

\* resolve_save_version(): the pinned save version, else the cached one, else
\* a fresh timestamp, which is cached.
resolve_save_version ==
    IF self.version.save # 0
    THEN [version |-> self.version.save, vc |-> versionCache, clock |-> clock]
    ELSE IF versionCache.save # 0
    THEN [version |-> versionCache.save, vc |-> versionCache, clock |-> clock]
    ELSE [version |-> clock, vc |-> [versionCache EXCEPT !.save = clock],
          clock |-> clock + 1]

\* _get_save_path(): the logical path when unversioned; else the versioned
\* path, which must not exist yet.
_get_save_path ==
    IF ~self.version.set
    THEN [ok |-> TRUE, path |-> self.filepath, vc |-> versionCache, clock |-> clock,
          cache |-> fsCache]
    ELSE LET r == resolve_save_version
             path == _get_versioned_path(r.version)
         IN  [ok |-> PlainStr(path) \notin DOMAIN files,
              error |-> "DatasetError",
              path |-> path, vc |-> r.vc, clock |-> r.clock,
              cache |-> fsCache \cup {PlainStr(path)}]

-----------------------------------------------------------------------------
(* load *)

Running(op) == [NoOutcome EXCEPT !.op = op]

\* a bug: the stream is left open when the body raised
with_exit_leaking(path) ==
    IF frame.exc # "none" THEN streams ELSE {s \in streams : s.path # path}

\* leaving a with-statement (lines 179, 184): the stream opened at path is
\* closed, whether the body returned or raised
with_exit(path) == {s \in streams : s.path # path}

\* line 178
load_resolve ==
    /\ pc = "idle"
    /\ LET r == _get_load_path
       IN  /\ versionCache' = r.vc
           /\ fsCache' = r.cache
           /\ IF r.ok
              THEN LET load_path == get_filepath_str(r.path, self.protocol)
                   IN  /\ pc' = "load_open"
                       /\ frame' = [NoFrame EXCEPT !.path = load_path]
                       /\ log' = <<Ev("_get_load_path", load_path, "", "ok")>>
                       /\ outcome' = Running("load")
              ELSE /\ pc' = "idle"
                   /\ frame' = NoFrame
                   /\ log' = <<Ev("_get_load_path", NoPathStr, "", r.error)>>
                   /\ outcome' = Raised("load", r.error)
    /\ UNCHANGED <<args, batch, self, files, clock, streams, saved>>

\* line 179, entering the with-statement
load_open ==
    /\ pc = "load_open"
    /\ \E healthy \in BOOLEAN :
          LET mode == self.fs_open_args_load.mode
              o == fs_open(frame.path, mode, healthy)
          IN  /\ files' = o.files
              /\ IF o.ok
                 THEN /\ streams' = streams \cup {[path |-> frame.path, mode |-> mode]}
                      /\ fsCache' = fsCache \cup {frame.path}
                      /\ log' = Append(log, Ev("open", frame.path, mode, "ok"))
                      /\ pc' = "load_decode"
                      /\ UNCHANGED <<frame, outcome>>
                 ELSE /\ log' = Append(log, Ev("open", frame.path, mode, o.error))
                      /\ outcome' = Raised("load", o.error)
                      /\ pc' = "idle"
                      /\ frame' = NoFrame
                      /\ UNCHANGED <<streams, fsCache>>
    /\ UNCHANGED <<args, batch, self, versionCache, clock, saved>>

\* line 180
load_decode ==
    /\ pc = "load_decode"
    /\ LET d == load_svmlight_file(files[frame.path], self.load_args)
       IN  IF d.ok
           THEN /\ frame' = [frame EXCEPT !.ret = Some(d.data)]
                /\ log' = Append(log, Ev("load_svmlight_file", frame.path, "", "ok"))
           ELSE /\ frame' = [frame EXCEPT !.exc = d.error]
                /\ log' = Append(log, Ev("load_svmlight_file", frame.path, "", d.error))
    /\ pc' = "load_exit"
    /\ UNCHANGED <<args, batch, self, files, fsCache, versionCache, clock, streams, outcome, saved>>

\* leaving the with-statement of line 179: the stream is closed, then the
\* value is returned or the exception goes on.
load_exit ==
    /\ pc = "load_exit"
    /\ streams' = with_exit(frame.path)
    /\ log' = Append(log, Ev("close", frame.path, "", "ok"))
    /\ outcome' = IF frame.exc # "none"
                  THEN Raised("load", frame.exc)
                  ELSE [Returned("load") EXCEPT !.data = frame.ret]
    /\ pc' = "idle"
    /\ frame' = NoFrame
    /\ UNCHANGED <<args, batch, self, files, fsCache, versionCache, clock, saved>>

load == load_resolve \/ load_open \/ load_decode \/ load_exit

-----------------------------------------------------------------------------
(* save *)

\* a bug: the path just resolved is invalidated, not the logical one
_invalidate_cache_resolved_path ==
    [path |-> frame.path, cache |-> fs_invalidate_cache(fsCache, frame.path)]

\* a bug: the filesystem is never told
_invalidate_cache_forgotten ==
    [path |-> get_filepath_str(self.filepath, self.protocol), cache |-> fsCache]

\* lines 201-204: the path handed to fs.invalidate_cache, and the
\* filesystem's cache after it
_invalidate_cache ==
    LET filepath == get_filepath_str(self.filepath, self.protocol)
    IN  [path |-> filepath, cache |-> fs_invalidate_cache(fsCache, filepath)]

\* a bug: save_args are not handed to the codec
dump_call_without_save_args(data) == dump_svmlight_file(data.X, data.y, EmptyDict)

\* line 185: dump_svmlight_file(data[0], data[1], fs_file, **self._save_args)
dump_call(data) == dump_svmlight_file(data.X, data.y, self.save_args)

\* line 183
save_resolve ==
    /\ pc = "idle"
    /\ \E data \in Data :
          LET r == _get_save_path
          IN  /\ r.clock <= MaxClock + 1
              /\ versionCache' = r.vc
              /\ clock' = r.clock
              /\ fsCache' = r.cache
              /\ IF r.ok
                 THEN LET save_path == get_filepath_str(r.path, self.protocol)
                      IN  /\ pc' = "save_open"
                          /\ frame' = [NoFrame EXCEPT !.path = save_path, !.data = Some(data)]
                          /\ log' = <<Ev("_get_save_path", save_path, "", "ok")>>
                          /\ outcome' = Running("save")
                 ELSE /\ pc' = "idle"
                      /\ frame' = NoFrame
                      /\ log' = <<Ev("_get_save_path", NoPathStr, "", r.error)>>
                      /\ outcome' = Raised("save", r.error)
    /\ saved' = None
    /\ UNCHANGED <<args, batch, self, files, streams>>

\* line 184, entering the with-statement
save_open ==
    /\ pc = "save_open"
    /\ \E healthy \in BOOLEAN :
          LET mode == self.fs_open_args_save.mode
              o == fs_open(frame.path, mode, healthy)
          IN  /\ files' = o.files
              /\ IF o.ok
                 THEN /\ streams' = streams \cup {[path |-> frame.path, mode |-> mode]}
                      /\ log' = Append(log, Ev("open", frame.path, mode, "ok"))
                      /\ pc' = "save_encode"
                      /\ UNCHANGED <<frame, outcome>>
                 ELSE /\ log' = Append(log, Ev("open", frame.path, mode, o.error))
                      /\ outcome' = Raised("save", o.error)
                      /\ pc' = "idle"
                      /\ frame' = NoFrame
                      /\ UNCHANGED streams
    /\ UNCHANGED <<args, batch, self, fsCache, versionCache, clock, saved>>

\* line 185
save_encode ==
    /\ pc = "save_encode"
    /\ LET e == dump_call(frame.data.val)
       IN  IF e.ok
           THEN /\ files' = [files EXCEPT ![frame.path] = @ \o e.lines]
                /\ log' = Append(log, Ev("dump_svmlight_file", frame.path, "", "ok"))
                /\ frame' = frame
           ELSE /\ files' = files
                /\ log' = Append(log, Ev("dump_svmlight_file", frame.path, "", e.error))
                /\ frame' = [frame EXCEPT !.exc = e.error]
    /\ pc' = "save_exit"
    /\ UNCHANGED <<args, batch, self, fsCache, versionCache, clock, streams, outcome, saved>>

\* leaving the with-statement of line 184
save_exit ==
    /\ pc = "save_exit"
    /\ streams' = with_exit(frame.path)
    /\ log' = Append(log, Ev("close", frame.path, "", "ok"))
    /\ IF frame.exc # "none"
       THEN /\ outcome' = Raised("save", frame.exc)
            /\ pc' = "idle"
            /\ frame' = NoFrame
       ELSE /\ pc' = "save_invalidate"
            /\ UNCHANGED <<frame, outcome>>
    /\ UNCHANGED <<args, batch, self, files, fsCache, versionCache, clock, saved>>

\* line 187
save_invalidate ==
    /\ pc = "save_invalidate"
    /\ fsCache' = _invalidate_cache.cache
    /\ log' = Append(log, Ev("invalidate_cache", _invalidate_cache.path, "", "ok"))
    /\ outcome' = Returned("save")
    /\ saved' = Some([data |-> frame.data.val, path |-> frame.path])
    /\ pc' = "idle"
    /\ frame' = NoFrame
    /\ UNCHANGED <<args, batch, self, files, versionCache, clock, streams>>

save == save_resolve \/ save_open \/ save_encode \/ save_exit \/ save_invalidate

-----------------------------------------------------------------------------
(* _exists, _release, _describe *)

\* a bug: the resolution error is not caught
exists_on_resolution_error_uncaught(e) == Raised("exists", e)

\* lines 192-193: except DatasetError: return False
exists_on_resolution_error(e) ==
    IF e \in DatasetErrors
    THEN [Returned("exists") EXCEPT !.flag = FALSE]
    ELSE Raised("exists", e)

\* a bug: every error of the existence check is turned into False
exists_result_swallowing(x) ==
    [Returned("exists") EXCEPT !.flag = IF x.ok THEN x.value ELSE FALSE]

\* line 195: return self._fs.exists(load_path)
exists_result(x) ==
    IF x.ok THEN [Returned("exists") EXCEPT !.flag = x.value] ELSE Raised("exists", x.error)

\* lines 189-195
_exists ==
    /\ pc = "idle"
    /\ LET r == _get_load_path
       IN  /\ versionCache' = r.vc
           /\ IF ~r.ok
              THEN /\ fsCache' = r.cache
                   /\ log' = <<Ev("_get_load_path", NoPathStr, "", r.error)>>
                   /\ outcome' = exists_on_resolution_error(r.error)
              ELSE LET load_path == get_filepath_str(r.path, self.protocol)
                   IN  \E healthy \in BOOLEAN :
                          LET x == fs_exists(load_path, healthy)
                          IN  /\ fsCache' = IF x.ok THEN r.cache \cup {load_path} ELSE r.cache
                              /\ log' = <<Ev("_get_load_path", load_path, "", "ok"),
                                          Ev("exists", load_path, "",
                                             IF x.ok THEN "ok" ELSE x.error)>>
                              /\ outcome' = exists_result(x)
    /\ UNCHANGED <<args, batch, self, files, clock, streams, pc, frame, saved>>

\* a bug: the cache is invalidated before the resolver's release hook runs
_release_invalidating_first ==
    /\ pc = "idle"
    /\ versionCache' = [load |-> 0, save |-> 0]
    /\ fsCache' = _invalidate_cache.cache
    /\ log' = <<Ev("invalidate_cache", _invalidate_cache.path, "", "ok"),
                Ev("super._release", NoPathStr, "", "ok")>>
    /\ outcome' = Returned("release")
    /\ UNCHANGED <<args, batch, self, files, clock, streams, pc, frame, saved>>

\* a bug: release also lets go of the filesystem handle
_release_dropping_fs ==
    /\ pc = "idle"
    /\ versionCache' = [load |-> 0, save |-> 0]
    /\ fsCache' = _invalidate_cache.cache
    /\ log' = <<Ev("super._release", NoPathStr, "", "ok"),
                Ev("invalidate_cache", _invalidate_cache.path, "", "ok")>>
    /\ outcome' = Returned("release")
    /\ self' = [self EXCEPT !.fs = [protocol |-> "", kwargs |-> EmptyDict]]
    /\ UNCHANGED <<args, batch, files, clock, streams, pc, frame, saved>>

\* lines 197-199: super()._release() clears the resolver's version cache
_release ==
    /\ pc = "idle"
    /\ versionCache' = [load |-> 0, save |-> 0]
    /\ fsCache' = _invalidate_cache.cache
    /\ log' = <<Ev("super._release", NoPathStr, "", "ok"),
                Ev("invalidate_cache", _invalidate_cache.path, "", "ok")>>
    /\ outcome' = Returned("release")
    /\ UNCHANGED <<args, batch, self, files, clock, streams, pc, frame, saved>>

\* lines 168-175
_describe ==
    /\ pc = "idle"
    /\ log' = <<>>
    /\ outcome' = [Returned("describe") EXCEPT
                      !.described = Some([filepath |-> self.filepath,
                                          protocol |-> self.protocol,
                                          load_args |-> self.load_args,
                                          save_args |-> self.save_args,
                                          version |-> self.version])]
    /\ UNCHANGED <<args, batch, self, files, fsCache, versionCache, clock, streams, pc, frame, saved>>

-----------------------------------------------------------------------------
(* Constructor arguments *)

Filepaths ==
    {[scheme |-> "", path |-> "data/x.svm"],
     [scheme |-> "file", path |-> "/data/x.svm"],
     [scheme |-> "s3", path |-> "bucket/x.svm"],
     [scheme |-> "https", path |-> "host/x.svm"]}

OpenArgsLoadChoices ==
    {Absent,
     Entry("open_args_load", EmptyDict),
     Entry("open_args_load", [mode |-> "r"]),
     Entry("open_args_load", [encoding |-> "utf-8"]),
     Entry("open_args_load", [mode |-> "r", encoding |-> "utf-8"])}

OpenArgsSaveChoices ==
    {Absent,
     Entry("open_args_save", [mode |-> "ab"]),
     Entry("open_args_save", [compression |-> "gzip"])}

AutoMkdirChoices == {Absent, Entry("auto_mkdir", TRUE), Entry("auto_mkdir", FALSE)}

ProjectChoices == {Absent, Entry("project", "my-project")}

FsArgsDicts ==
    {Put(Put(Put(Put(EmptyDict, am), ol), os), pj) :
        am \in AutoMkdirChoices, ol \in OpenArgsLoadChoices,
        os \in OpenArgsSaveChoices, pj \in ProjectChoices}

Args(fp, la, sa, v, cr, fa) ==
    [filepath |-> fp, load_args |-> la, save_args |-> sa, version |-> v,
     credentials |-> cr, fs_args |-> fa, metadata |-> None]

CtorArgs ==
    {Args(fp, None, None, v, cr, fa) :
        fp \in Filepaths,
        v \in {NoVersion, Version(0, 0)},
        cr \in {None, Some([token |-> "t"]), Some([project |-> "other"])},
        fa \in {None} \cup {Some(d) : d \in FsArgsDicts}}

InitCtor ==
    /\ args \in CtorArgs
    /\ batch = DocExample
    /\ self = NotConstructed
    /\ files = EmptyDict
    /\ fsCache = {}
    /\ versionCache = [load |-> 0, save |-> 0]
    /\ clock = 1
    /\ streams = {}
    /\ pc = "new"
    /\ frame = NoFrame
    /\ log = <<>>
    /\ outcome = NoOutcome
    /\ saved = None

NextCtor == __init__

SpecCtor == InitCtor /\ [][NextCtor]_vars

-----------------------------------------------------------------------------
(* The adapter in use *)

UseArgs ==
    {Args(fp, la, sa, v, None, None) :
        fp \in {[scheme |-> "", path |-> "data/x.svm"], [scheme |-> "https", path |-> "host/x.svm"]},
        la \in {None, Some([zero_based |-> "False"])},
        sa \in {None, Some([zero_based |-> "False"])},
        v \in {NoVersion} \cup {Version(l, s) : l \in {0, 1}, s \in {0, 1, 2}}}

Init ==
    /\ args \in UseArgs
    /\ batch \in Batches
    /\ New(args).ok
    /\ self = New(args).obj
    /\ files = EmptyDict
    /\ fsCache = {}
    /\ versionCache = [load |-> 0, save |-> 0]
    /\ clock = 1
    /\ streams = {}
    /\ pc = "idle"
    /\ frame = NoFrame
    /\ log = <<>>
    /\ outcome = Returned("__init__")
    /\ saved = None

Next == load \/ save \/ _exists \/ _release \/ _describe

Spec == Init /\ [][Next]_vars

-----------------------------------------------------------------------------
(* Properties *)

\* the last call was op, and it has returned or raised
After(op) == pc = "idle" /\ outcome.op = op /\ outcome.kind \in {"return", "raise"}

ReturnedFrom(op) == After(op) /\ outcome.kind = "return"

\* the filesystem itself refused the last call (permission, network)
FsRefused == outcome.kind = "raise" /\ outcome.error = "OSError"

Calls == [i \in 1..Len(log) |-> log[i].call]

Failures == {i \in 1..Len(log) : log[i].result # "ok"}

LogicalPathStr ==
    [prefix |-> IF self.protocol \in HTTP_PROTOCOLS THEN self.protocol ELSE "",
     base |-> self.filepath.base, ver |-> 0]

SamePath == log # <<>> /\ log[1].path = saved.val.path

\* what the text format keeps of a batch under the adapter's options: values
\* of at most 16 significant digits, the width when the last column has a
\* non-zero entry, the index base when load's zero_based equals save's or is
\* left to "auto" and either save is one-based or the first column has a
\* non-zero entry
RoundTrippable(d) ==
    LET zl == GetOr(self.load_args, "zero_based", "auto")
        zs == GetOr(self.save_args, "zero_based", "True")
        rows == 1..Len(d.X)
    IN  /\ \A i \in rows : \A j \in 1..Len(d.X[i]) : d.X[i][j].tail = 0
        /\ \E i \in rows : d.X[i][Len(d.X[i])] # Zero
        /\ \/ zl = zs
           \/ zl = "auto" /\ (zs = "False" \/ \E i \in rows : d.X[i][1] # Zero)

C2_ExistsFalseNeverRaises ==
    (After("exists") /\ files = EmptyDict) => (outcome.kind = "return" /\ ~outcome.flag)

\* C2 amended: exists() turns a resolution error into the result false;
\* otherwise its result is the filesystem's existence check on the resolved
\* load path, whose error, if it raises, is the only error exists() raises.
\* While no file has been saved, a result it returns is false.
C2_ExistsFalseUnlessFsRaises ==
    After("exists") =>
        /\ log[1].call = "_get_load_path"
        /\ log[1].result # "ok" =>
              /\ Len(log) = 1
              /\ log[1].result \in DatasetErrors
              /\ outcome.kind = "return" /\ ~outcome.flag
        /\ log[1].result = "ok" =>
              /\ Len(log) = 2
              /\ log[2].call = "exists" /\ log[2].path = log[1].path
              /\ IF log[2].result = "ok"
                 THEN outcome.kind = "return" /\ outcome.flag = (log[2].path \in DOMAIN files)
                 ELSE outcome.kind = "raise" /\ outcome.error = log[2].result
        /\ (files = EmptyDict /\ outcome.kind = "return") => ~outcome.flag

C2_Witness ==
    /\ ReturnedFrom("exists")
    /\ files = EmptyDict
    /\ log[1].result = "VersionNotFoundError"
    /\ ~outcome.flag

SaveCalls == <<"_get_save_path", "open", "dump_svmlight_file", "close", "invalidate_cache">>

\* C3 as stated: a save that returns has resolved, opened, encoded, closed
\* and then invalidated, and the path invalidated is the path resolved and
\* written.
C3_InvalidatesSavePath ==
    ReturnedFrom("save") =>
        /\ Calls = SaveCalls
        /\ \A i \in 1..Len(log) : log[i].path = log[1].path

\* C3 amended: a save that returns has resolved, opened, encoded, closed and
\* then invalidated, in this order; the stream was opened, written and closed
\* at the path resolved; the path invalidated is the adapter's logical path,
\* which is the path written exactly when the adapter is unversioned.
C3_InvalidatesLogicalPath ==
    ReturnedFrom("save") =>
        /\ Calls = SaveCalls
        /\ \A i \in 2..4 : log[i].path = log[1].path
        /\ log[2].mode = self.fs_open_args_save.mode
        /\ log[5].path = LogicalPathStr
        /\ (log[5].path = log[1].path) <=> ~self.version.set

C3_Witness ==
    /\ ReturnedFrom("save")
    /\ self.version.set
    /\ log[1].path.ver = 2
    /\ log[5].path.ver = 0

\* C4 as stated: every save, whatever its outcome, and every release ends
\* with an invalidation of the filesystem's cache.
C4_InvalidatesWhateverOutcome ==
    (After("save") \/ After("release")) =>
        (log # <<>> /\ log[Len(log)].call = "invalidate_cache")

\* C4 amended: every save that returns and every release ends with an
\* invalidation of the filesystem's cache, which then holds nothing for the
\* logical path; a save that raises invalidates nothing.
C4_InvalidatesAfterReturn ==
    /\ (ReturnedFrom("save") \/ After("release")) =>
          /\ log # <<>> /\ log[Len(log)].call = "invalidate_cache"
          /\ log[Len(log)].result = "ok"
          /\ LogicalPathStr \notin fsCache
    /\ (After("save") /\ outcome.kind = "raise") =>
          \A i \in 1..Len(log) : log[i].call # "invalidate_cache"

C4_Witness ==
    /\ ReturnedFrom("save")
    /\ ~self.version.set
    /\ files # EmptyDict
    /\ log[Len(log)].call = "invalidate_cache"
    /\ fsCache = {}

InStreamScope == pc \in {"load_decode", "load_exit", "save_encode", "save_exit"}

\* C5: at most one stream is open, only inside the with-statement of a load
\* or save in progress; when load or save has returned or raised, on
\* whatever path, no stream is open.
C5_StreamsScoped ==
    /\ Cardinality(streams) <= 1
    /\ streams # {} => (InStreamScope /\ \A s \in streams : s.path = frame.path)
    /\ pc = "idle" => streams = {}

C5_Witness ==
    /\ After("save")
    /\ outcome.kind = "raise" /\ outcome.error = "ValueError"
    /\ \E i \in 1..Len(log) : log[i].call = "open" /\ log[i].result = "ok"
    /\ streams = {}

CallerOpenArgs(key) == GetOr(OrEmpty(args.fs_args), key, EmptyDict)

MergedOver(stored, caller, default_mode) ==
    /\ DOMAIN stored = DOMAIN caller \cup {"mode"}
    /\ \A k \in DOMAIN caller : stored[k] = caller[k]
    /\ "mode" \notin DOMAIN caller => stored.mode = default_mode

\* C6: the stored open-options are the caller's, key by key, over the
\* defaults: mode is "rb" for load and "wb" for save unless the caller's
\* open_args_load / open_args_save has its own mode, and every other key of
\* the caller is kept.
C6_OpenArgsMerged ==
    pc = "idle" =>
        /\ MergedOver(self.fs_open_args_load, CallerOpenArgs("open_args_load"), "rb")
        /\ MergedOver(self.fs_open_args_save, CallerOpenArgs("open_args_save"), "wb")

C6_Witness ==
    /\ pc = "idle"
    /\ CallerOpenArgs("open_args_load") = [mode |-> "r", encoding |-> "utf-8"]
    /\ self.fs_open_args_load.mode = "r"
    /\ CallerOpenArgs("open_args_save") = [compression |-> "gzip"]
    /\ self.fs_open_args_save = [mode |-> "wb", compression |-> "gzip"]

\* C7: no step is tried twice and at most one fails; the error of the step
\* that failed is the error the caller gets, and nothing but the closing of
\* the stream follows it; the one exception is a resolution error
\* (DatasetError) in exists(), which returns false.
C7_ErrorsPropagate ==
    (After("load") \/ After("save") \/ After("exists")) =>
        /\ Cardinality(Failures) <= 1
        /\ \A i, j \in 1..Len(log) : i # j => log[i].call # log[j].call
        /\ Failures = {} => outcome.kind = "return"
        /\ \A i \in Failures :
              /\ \A j \in (i + 1)..Len(log) : log[j].call = "close"
              /\ IF outcome.op = "exists" /\ log[i].call = "_get_load_path"
                    /\ log[i].result \in DatasetErrors
                 THEN outcome.kind = "return" /\ ~outcome.flag
                 ELSE outcome.kind = "raise" /\ outcome.error = log[i].result

C7_Witness ==
    /\ After("load")
    /\ outcome.kind = "raise" /\ outcome.error = "VersionNotFoundError"
    /\ Failures = {1}

ReservedKeys == {"open_args_load", "open_args_save"}

\* C8: the filesystem is constructed with the caller's fs_args less the two
\* reserved keys; for the "file" protocol auto_mkdir is the caller's value,
\* or True when the caller gave none; for another protocol no auto_mkdir is
\* added.
C8_FsConstructorArgs ==
    pc = "idle" =>
        LET caller == OrEmpty(args.fs_args)
            rest == DOMAIN caller \ ReservedKeys
            passed == self.fs.kwargs
        IN  /\ ReservedKeys \cap DOMAIN passed = {}
            /\ \A k \in rest : k \in DOMAIN passed /\ passed[k] = caller[k]
            /\ DOMAIN passed \subseteq
                  (rest \cup DOMAIN OrEmpty(args.credentials) \cup {"auto_mkdir"})
            /\ self.protocol = "file" =>
                  /\ "auto_mkdir" \in DOMAIN passed
                  /\ passed.auto_mkdir =
                        IF "auto_mkdir" \in rest THEN caller.auto_mkdir ELSE TRUE
            /\ self.protocol # "file" =>
                  ("auto_mkdir" \in DOMAIN passed <=> "auto_mkdir" \in rest)

C8_Witness ==
    /\ pc = "idle"
    /\ self.protocol = "file"
    /\ args.fs_args.some
    /\ DOMAIN args.fs_args.val = {"auto_mkdir", "open_args_load", "open_args_save", "project"}
    /\ ~args.fs_args.val.auto_mkdir
    /\ self.fs.kwargs = [auto_mkdir |-> FALSE, project |-> "my-project"]

\* C9: a step that is a release runs the resolver's release hook, which
\* clears the cached versions, and then invalidates the filesystem's cache
\* for the logical path, in this order; it changes neither the stored files
\* nor the adapter's configuration.
C9_ReleaseOrder ==
    [][(pc = "idle" /\ outcome' # outcome /\ outcome'.op = "release") =>
          /\ log' = <<Ev("super._release", NoPathStr, "", "ok"),
                      Ev("invalidate_cache", LogicalPathStr, "", "ok")>>
          /\ versionCache' = [load |-> 0, save |-> 0]
          /\ LogicalPathStr \notin fsCache'
          /\ files' = files
          /\ self' = self]_vars

C9_Witness ==
    /\ ReturnedFrom("release")
    /\ self.version.set
    /\ files # EmptyDict
    /\ versionCache = [load |-> 0, save |-> 0]
    /\ Calls = <<"super._release", "invalidate_cache">>

====
